---- MODULE Spec2Model ----
(***************************************************************************)
(* State-machine model of delv's exploration tree (src/delv/tree.py).      *)
(*                                                                         *)
(* Node ids are modelled as integers: "root" is 0 and the generated id     *)
(* f"n{k}" is the integer k (the formatting is injective, and next_id      *)
(* starts at 1, so no generated id collides with root).  Python's None is  *)
(* the integer -1.  A Python list is a TLA+ sequence (1-based).            *)
(*                                                                         *)
(* Every method of ExplorationTree is an operator on a record `s` holding  *)
(* the fields of the tree plus the outcome of the call under way:          *)
(*   exc  - the exception that ended the call ("" when none),              *)
(*   touched - touch() was called, i.e. the `updated` stamp was renewed,   *)
(*   ret  - the value returned ("ok" for None, "True", "False"),           *)
(*   gen  - the ids generate_id handed out during the call,                *)
(*   new  - the id the latest generate_id returned,                        *)
(*   cut  - the call was abandoned for needing ids beyond the model's      *)
(*          bounds (no successor state).                                   *)
(* An action applies one public method to the current state.               *)
(***************************************************************************)
EXTENDS Integers, Sequences, FiniteSets, TLC

VARIABLES nodes, current, history, next_id, updated, used, dir, inode, sess

\* The tree in memory; the directory of stored files, the files' contents and
\* the sessions saving to them (src/delv/storage.py).
treevars == <<nodes, current, history, next_id, updated, used>>
storevars == <<dir, inode, sess>>
vars == <<nodes, current, history, next_id, updated, used, dir, inode, sess>>

\* ------------------------------------------------------------------ bounds
\* Largest size of a tree the model follows.  The size counts the ids
\* generated so far (twice each), the entries of the history, the link
\* entries, the characters of the bodies and the nodes whose status is not the
\* default.
MaxSize == 7

root == 0
None == -1

\* The ids the operations are called with: root, every id generated so far
\* (present or deleted) and the one not generated yet.
Ids == 0..next_id
\* The indexes go_down is called with.
Indexes == -1..2
Titles == {"t"}
Statuses == {"active", "done", "dropped", "todo"}
\* The statuses set_status is called with.
StatusInputs == {"done", "todo"}
\* The texts append_body is called with.
Texts == {"x"}
\* The links lists update_node is called with: every list of at most two
\* entries over root and n1 (n1 may be present, deleted or not generated yet).
LinkTargets == {0, 1}
LinkInputs ==
  {<<>>} \cup {<<x>> : x \in LinkTargets} \cup {<<x, y>> : x \in LinkTargets, y \in LinkTargets}

\* ----------------------------------------------------------- list helpers
\* x in lst
In(x, lst) == \E i \in 1..Len(lst) : lst[i] = x

\* lst.index(x), 1-based; 0 when x is not in lst (Python raises ValueError)
Index(lst, x) ==
  IF In(x, lst) THEN CHOOSE i \in 1..Len(lst) : lst[i] = x /\ \A j \in 1..(i-1) : lst[j] # x
  ELSE 0

\* lst.remove(x): drops the first occurrence of x (x is known to be in lst)
RemoveFirst(lst, x) ==
  LET i == Index(lst, x)
  IN  IF i = 0 THEN lst ELSE SubSeq(lst, 1, i-1) \o SubSeq(lst, i+1, Len(lst))

\* lst.insert(i0, x) with the 0-based position i0 in 0..len(lst)
InsertAt(lst, i0, x) == SubSeq(lst, 1, i0) \o <<x>> \o SubSeq(lst, i0+1, Len(lst))

\* [h for h in lst if h not in drop]
Without(lst, drop) == SelectSeq(lst, LAMBDA h : ~In(h, drop))

\* d[k] = v
Put(d, k, v) == [x \in (DOMAIN d) \cup {k} |-> IF x = k THEN v ELSE d[x]]

\* del d[k]
Del(d, k) == [x \in (DOMAIN d) \ {k} |-> d[x]]

\* ------------------------------------------------------------------ state
Node(title, parent) ==
  [title |-> title, status |-> "active", parent |-> parent,
   children |-> <<>>, body |-> "", links |-> <<>>]

\* The tree the next call runs on, with the call's outcome fields cleared.
Self ==
  [nodes |-> nodes, current |-> current, history |-> history, next_id |-> next_id,
   touched |-> FALSE, exc |-> "", ret |-> "ok", gen |-> {}, new |-> None, cut |-> FALSE]

Raise(s, e) == [s EXCEPT !.exc = e]

\* ExplorationTree.create
create ==
  [nodes |-> (root :> Node("t", None)), current |-> root, history |-> <<root>>, next_id |-> 1,
   touched |-> FALSE, exc |-> "", ret |-> "ok", gen |-> {}, new |-> None, cut |-> FALSE]

InitTree ==
  /\ nodes = create.nodes
  /\ current = create.current
  /\ history = create.history
  /\ next_id = create.next_id
  /\ updated = FALSE
  /\ used = {root}

touch(s) == [s EXCEPT !.touched = TRUE]

\* Mutant of generate_id: the id is numbered by the size of the store, so an id
\* freed by a delete is handed out again.
generate_id_by_count(s) ==
  [s EXCEPT !.new = Cardinality(DOMAIN s.nodes),
            !.next_id = s.next_id + 1,
            !.gen = @ \cup {Cardinality(DOMAIN s.nodes)},
            !.cut = @ \/ 2 * s.next_id >= MaxSize]

\* node_id = f"n{self.next_id}"; self.next_id += 1; return node_id
\* (s.new is the id returned).  An id that alone makes the tree larger than
\* the model follows ends the call (cut).
generate_id(s) ==
  [s EXCEPT !.new = s.next_id,
            !.next_id = s.next_id + 1,
            !.gen = @ \cup {s.next_id},
            !.cut = @ \/ 2 * s.next_id >= MaxSize]

\* Mutant of go_to: earlier entries naming node_id are dropped from the history.
go_to_deduplicating(s, node_id) ==
  IF node_id \notin DOMAIN s.nodes THEN Raise(s, "ValueError")
  ELSE IF s.current # node_id
       THEN touch([s EXCEPT !.history = Append(Without(@, <<node_id>>), node_id),
                            !.current = node_id])
       ELSE s

go_to(s, node_id) ==
  IF node_id \notin DOMAIN s.nodes THEN Raise(s, "ValueError")
  ELSE IF s.current # node_id
       THEN touch([s EXCEPT !.history = Append(@, node_id),
                            !.current = node_id])
       ELSE s

\* Mutant of add_child: the new node is put first among the parent's children.
add_child_first(s, parent_id, title, enter) ==
  IF parent_id \notin DOMAIN s.nodes THEN Raise(s, "ValueError")
  ELSE
    LET s1 == generate_id(s)
        node_id == s1.new
        s2 == [s1 EXCEPT !.nodes = Put(@, node_id, Node(title, parent_id))]
        s3 == [s2 EXCEPT !.nodes[parent_id].children = <<node_id>> \o @]
        s4 == IF enter THEN go_to(s3, node_id) ELSE s3
    IN  IF s4.exc # "" THEN s4 ELSE touch(s4)

add_child(s, parent_id, title, enter) ==
  IF parent_id \notin DOMAIN s.nodes THEN Raise(s, "ValueError")
  ELSE
    LET s1 == generate_id(s)
        node_id == s1.new
        s2 == [s1 EXCEPT !.nodes = Put(@, node_id, Node(title, parent_id))]
        s3 == [s2 EXCEPT !.nodes[parent_id].children = Append(@, node_id)]
        s4 == IF enter THEN go_to(s3, node_id) ELSE s3
    IN  IF s4.exc # "" THEN s4 ELSE touch(s4)

\* Mutant of add_sibling: the new node is put last among the parent's children.
add_sibling_last(s, sibling_id, title, enter) ==
  IF sibling_id \notin DOMAIN s.nodes \/ s.nodes[sibling_id].parent = None
  THEN Raise(s, "ValueError")
  ELSE
    LET parent_id == s.nodes[sibling_id].parent
        s1 == generate_id(s)
        node_id == s1.new
        s2 == [s1 EXCEPT !.nodes = Put(@, node_id, Node(title, parent_id))]
        s3 == [s2 EXCEPT !.nodes[parent_id].children = Append(@, node_id)]
        s4 == IF enter THEN go_to(s3, node_id) ELSE s3
    IN  IF s4.exc # "" THEN s4 ELSE touch(s4)

add_sibling(s, sibling_id, title, enter) ==
  IF sibling_id \notin DOMAIN s.nodes \/ s.nodes[sibling_id].parent = None
  THEN Raise(s, "ValueError")
  ELSE
    LET parent_id == s.nodes[sibling_id].parent
    IN  IF parent_id \notin DOMAIN s.nodes THEN Raise(s, "KeyError")
        ELSE
          LET s1 == generate_id(s)
              node_id == s1.new
              s2 == [s1 EXCEPT !.nodes = Put(@, node_id, Node(title, parent_id))]
              idx == Index(s2.nodes[parent_id].children, sibling_id)
          IN  IF idx = 0 THEN Raise(s2, "ValueError")
              ELSE
                LET s3 == [s2 EXCEPT !.nodes[parent_id].children = InsertAt(@, idx, node_id)]
                    s4 == IF enter THEN go_to(s3, node_id) ELSE s3
                IN  IF s4.exc # "" THEN s4 ELSE touch(s4)

go_up(s) ==
  IF s.current \notin DOMAIN s.nodes THEN Raise(s, "KeyError")
  ELSE
    LET node == s.nodes[s.current]
    IN  IF node.parent # None
        THEN LET s1 == go_to(s, node.parent)
             IN  IF s1.exc # "" THEN s1 ELSE [s1 EXCEPT !.ret = "True"]
        ELSE [s EXCEPT !.ret = "False"]

go_down(s, index) ==
  IF s.current \notin DOMAIN s.nodes THEN Raise(s, "KeyError")
  ELSE
    LET node == s.nodes[s.current]
    IN  IF Len(node.children) > 0 /\ 0 <= index /\ index < Len(node.children)
        THEN LET s1 == go_to(s, node.children[index + 1])
             IN  IF s1.exc # "" THEN s1 ELSE [s1 EXCEPT !.ret = "True"]
        ELSE [s EXCEPT !.ret = "False"]

go_next_sibling(s) ==
  IF s.current \notin DOMAIN s.nodes THEN Raise(s, "KeyError")
  ELSE
    LET node == s.nodes[s.current]
    IN  IF node.parent = None THEN [s EXCEPT !.ret = "False"]
        ELSE IF node.parent \notin DOMAIN s.nodes THEN Raise(s, "KeyError")
        ELSE
          LET parent == s.nodes[node.parent]
              idx == Index(parent.children, s.current)
          IN  IF idx = 0 THEN Raise(s, "ValueError")
              ELSE IF idx + 1 <= Len(parent.children)
              THEN LET s1 == go_to(s, parent.children[idx + 1])
                   IN  IF s1.exc # "" THEN s1 ELSE [s1 EXCEPT !.ret = "True"]
              ELSE [s EXCEPT !.ret = "False"]

go_prev_sibling(s) ==
  IF s.current \notin DOMAIN s.nodes THEN Raise(s, "KeyError")
  ELSE
    LET node == s.nodes[s.current]
    IN  IF node.parent = None THEN [s EXCEPT !.ret = "False"]
        ELSE IF node.parent \notin DOMAIN s.nodes THEN Raise(s, "KeyError")
        ELSE
          LET parent == s.nodes[node.parent]
              idx == Index(parent.children, s.current)
          IN  IF idx = 0 THEN Raise(s, "ValueError")
              ELSE IF idx > 1
              THEN LET s1 == go_to(s, parent.children[idx - 1])
                   IN  IF s1.exc # "" THEN s1 ELSE [s1 EXCEPT !.ret = "True"]
              ELSE [s EXCEPT !.ret = "False"]

go_root(s) == go_to(s, root)

\* Mutant of go_back: the last entry is popped but the cursor stays.
go_back_cursor_stays(s) ==
  IF Len(s.history) > 1
  THEN touch([s EXCEPT !.history = SubSeq(@, 1, Len(@) - 1), !.ret = "True"])
  ELSE [s EXCEPT !.ret = "False"]

go_back(s) ==
  IF Len(s.history) > 1
  THEN LET h == SubSeq(s.history, 1, Len(s.history) - 1)
       IN  touch([s EXCEPT !.history = h, !.current = h[Len(h)], !.ret = "True"])
  ELSE [s EXCEPT !.ret = "False"]

set_status(s, node_id, status, auto_up) ==
  IF node_id \notin DOMAIN s.nodes THEN Raise(s, "ValueError")
  ELSE
    LET s1 == [s EXCEPT !.nodes[node_id].status = status]
        s2 == IF auto_up /\ status \in {"done", "dropped"} THEN go_up(s1) ELSE s1
    IN  IF s2.exc # "" THEN s2 ELSE touch([s2 EXCEPT !.ret = "ok"])

\* Total number of link entries and of body characters held by the nodes of
\* `ns`.
RECURSIVE SumLinks(_, _)
SumLinks(ns, keys) ==
  IF keys = {} THEN 0
  ELSE LET k == CHOOSE x \in keys : TRUE
       IN  Len(ns[k].links) + Len(ns[k].body) + SumLinks(ns, keys \ {k})

TotalLinks(ns) == SumLinks(ns, DOMAIN ns)

\* The size of a tree, which the model bounds.
Weight(s) ==
  2 * (s.next_id - 1) + Len(s.history) + TotalLinks(s.nodes)
    + Cardinality({k \in DOMAIN s.nodes : s.nodes[k].status # "active"})

\* An optional argument: NoArg is Python's None (not provided), Arg(v) a value.
NoArg == <<>>
Arg(v) == <<v>>

\* Mutant of update_node: a status left out resets the status to active.
update_node_resetting(s, node_id, title, body, status, links) ==
  IF node_id \notin DOMAIN s.nodes THEN Raise(s, "ValueError")
  ELSE
    LET s1 == IF title # NoArg THEN [s EXCEPT !.nodes[node_id].title = title[1]] ELSE s
        s2 == IF body # NoArg THEN [s1 EXCEPT !.nodes[node_id].body = body[1]] ELSE s1
        s3 == IF status # NoArg THEN [s2 EXCEPT !.nodes[node_id].status = status[1]]
              ELSE [s2 EXCEPT !.nodes[node_id].status = "active"]
        s4 == IF links # NoArg THEN [s3 EXCEPT !.nodes[node_id].links = links[1]] ELSE s3
    IN  touch(s4)

update_node(s, node_id, title, body, status, links) ==
  IF node_id \notin DOMAIN s.nodes THEN Raise(s, "ValueError")
  ELSE
    LET s1 == IF title # NoArg THEN [s EXCEPT !.nodes[node_id].title = title[1]] ELSE s
        s2 == IF body # NoArg THEN [s1 EXCEPT !.nodes[node_id].body = body[1]] ELSE s1
        s3 == IF status # NoArg THEN [s2 EXCEPT !.nodes[node_id].status = status[1]] ELSE s2
        s4 == IF links # NoArg THEN [s3 EXCEPT !.nodes[node_id].links = links[1]] ELSE s3
    IN  touch(s4)

append_body(s, node_id, text) ==
  IF node_id \notin DOMAIN s.nodes THEN Raise(s, "ValueError")
  ELSE IF s.nodes[node_id].body # ""
       THEN touch([s EXCEPT !.nodes[node_id].body = @ \o "\n\n" \o text])
       ELSE touch([s EXCEPT !.nodes[node_id].body = text])

\* Mutant of add_link: the link is appended before to_id is looked up.
add_link_checked_late(s, from_id, to_id) ==
  IF from_id \notin DOMAIN s.nodes THEN Raise(s, "ValueError")
  ELSE IF to_id \notin DOMAIN s.nodes
       THEN Raise([s EXCEPT !.nodes[from_id].links = Append(@, to_id)], "ValueError")
  ELSE IF ~In(to_id, s.nodes[from_id].links)
       THEN touch([s EXCEPT !.nodes[from_id].links = Append(@, to_id)])
       ELSE s

add_link(s, from_id, to_id) ==
  IF from_id \notin DOMAIN s.nodes THEN Raise(s, "ValueError")
  ELSE IF to_id \notin DOMAIN s.nodes THEN Raise(s, "ValueError")
  ELSE IF ~In(to_id, s.nodes[from_id].links)
       THEN touch([s EXCEPT !.nodes[from_id].links = Append(@, to_id)])
       ELSE s

remove_link(s, from_id, to_id) ==
  IF from_id \notin DOMAIN s.nodes THEN Raise(s, "ValueError")
  ELSE IF In(to_id, s.nodes[from_id].links)
       THEN touch([s EXCEPT !.nodes[from_id].links = RemoveFirst(@, to_id)])
       ELSE s

\* _is_ancestor walks the parent pointers of descendant_id.  `fuel` counts the
\* nodes not yet visited: a walk longer than the store has nodes is on a cycle
\* of parent pointers and never leaves the while loop ("diverges").
RECURSIVE IsAncestorWalk(_, _, _, _)
IsAncestorWalk(ns, ancestor_id, n, fuel) ==
  IF n \notin DOMAIN ns \/ ns[n].parent = None THEN "False"
  ELSE IF ns[n].parent = ancestor_id THEN "True"
  ELSE IF fuel = 0 THEN "diverges"
  ELSE IsAncestorWalk(ns, ancestor_id, ns[n].parent, fuel - 1)

_is_ancestor(s, ancestor_id, descendant_id) ==
  IsAncestorWalk(s.nodes, ancestor_id, descendant_id, Cardinality(DOMAIN s.nodes))

\* The checks move_node makes before it changes anything: the exception it
\* raises, "" when it goes on, "diverges" when the ancestor walk never ends.
MoveRefused(s, node_id, new_parent_id) ==
  IF node_id = root THEN "ValueError"
  ELSE IF node_id \notin DOMAIN s.nodes THEN "ValueError"
  ELSE IF new_parent_id \notin DOMAIN s.nodes THEN "ValueError"
  ELSE LET anc == _is_ancestor(s, node_id, new_parent_id)
       IN  IF anc = "diverges" THEN "diverges"
           ELSE IF anc = "True" THEN "ValueError"
           ELSE ""

\* Mutant of RemoveFromParent: the node is left in its old parent's children.
RemoveFromParentSkipped(s, node_id) == s

\* if node.parent: self.nodes[node.parent].children.remove(node_id)
RemoveFromParent(s, node_id) ==
  LET parent == s.nodes[node_id].parent
  IN  IF parent = None THEN s
      ELSE IF parent \notin DOMAIN s.nodes THEN Raise(s, "KeyError")
      ELSE IF ~In(node_id, s.nodes[parent].children) THEN Raise(s, "ValueError")
      ELSE [s EXCEPT !.nodes[parent].children = RemoveFirst(@, node_id)]

\* Mutant of AddToNewParent: the new parent's children list is left as it was.
AddToNewParent_unlisted(s, node_id, new_parent_id) ==
  [s EXCEPT !.nodes[node_id].parent = new_parent_id]

\* node.parent = new_parent_id; new_parent.children.append(node_id)
AddToNewParent(s, node_id, new_parent_id) ==
  LET s1 == [s EXCEPT !.nodes[node_id].parent = new_parent_id]
  IN  [s1 EXCEPT !.nodes[new_parent_id].children = Append(@, node_id)]

move_node(s, node_id, new_parent_id) ==
  LET refused == MoveRefused(s, node_id, new_parent_id)
  IN  IF refused # "" THEN Raise(s, refused)
      ELSE LET s1 == RemoveFromParent(s, node_id)
           IN  IF s1.exc # "" THEN s1
               ELSE touch(AddToNewParent(s1, node_id, new_parent_id))

\* _collect_descendants: node_id, then the descendants of each child in order.
\* `fuel` bounds the recursion depth by the number of nodes: a deeper recursion
\* has a node twice on its stack and recurses until Python's RecursionError;
\* the result then holds the marker None.
RECURSIVE CollectFrom(_, _, _)
RECURSIVE CollectChildren(_, _, _, _)
CollectFrom(ns, node_id, fuel) ==
  IF fuel = 0 THEN <<None>>
  ELSE IF node_id \in DOMAIN ns
       THEN <<node_id>> \o CollectChildren(ns, ns[node_id].children, 1, fuel - 1)
       ELSE <<node_id>>

CollectChildren(ns, children, i, fuel) ==
  IF i > Len(children) THEN <<>>
  ELSE CollectFrom(ns, children[i], fuel) \o CollectChildren(ns, children, i + 1, fuel)

_collect_descendants(s, node_id) ==
  CollectFrom(s.nodes, node_id, Cardinality(DOMAIN s.nodes) + 1)

\* Mutant of UnlinkOne: the links naming the deleted node are left in place.
UnlinkOne_skipped(ns, nid) == ns

\* for other in self.nodes.values(): if nid in other.links: other.links.remove(nid)
UnlinkOne(ns, nid) ==
  [k \in DOMAIN ns |->
     IF In(nid, ns[k].links) THEN [ns[k] EXCEPT !.links = RemoveFirst(@, nid)] ELSE ns[k]]

\* for nid in to_delete: (the loop above)
RECURSIVE UnlinkAll(_, _, _)
UnlinkAll(ns, to_delete, i) ==
  IF i > Len(to_delete) THEN ns
  ELSE UnlinkAll(UnlinkOne(ns, to_delete[i]), to_delete, i + 1)

\* for nid in to_delete: del self.nodes[nid]
RECURSIVE DeleteAll(_, _, _)
DeleteAll(s, to_delete, i) ==
  IF i > Len(to_delete) THEN s
  ELSE IF to_delete[i] \notin DOMAIN s.nodes THEN Raise(s, "KeyError")
  ELSE DeleteAll([s EXCEPT !.nodes = Del(@, to_delete[i])], to_delete, i + 1)

\* Mutant of FilteredHistory: the visits of root are dropped as well.
FilteredHistory_rootless(h, to_delete) == Without(h, to_delete \o <<root>>)

\* [h for h in self.history if h not in to_delete]
FilteredHistory(h, to_delete) == Without(h, to_delete)

\* Mutant of RelocateCursor: the cursor goes to the parent whether or not it was
\* among the deleted nodes.
RelocateCursorAlways(s, to_delete, parent) ==
  LET h == Without(s.history, to_delete)
  IN  [s EXCEPT !.current = IF parent # None THEN parent ELSE root,
                !.history = IF h = <<>> THEN <<root>> ELSE h]

\* if self.current in to_delete: relocate the cursor and filter the history
RelocateCursor(s, to_delete, parent) ==
  IF In(s.current, to_delete)
  THEN LET h == FilteredHistory(s.history, to_delete)
       IN  [s EXCEPT !.current = IF parent # None THEN parent ELSE root,
                     !.history = IF h = <<>> THEN <<root>> ELSE h]
  ELSE s

\* Mutant of DeleteRefused: the check for root is missing.
DeleteRefusedAbsentOnly(s, node_id) ==
  IF node_id \notin DOMAIN s.nodes THEN "ValueError" ELSE ""

\* The checks delete_node makes before it changes anything.
DeleteRefused(s, node_id) ==
  IF node_id = root THEN "ValueError"
  ELSE IF node_id \notin DOMAIN s.nodes THEN "ValueError"
  ELSE ""

delete_node(s, node_id) ==
  LET refused == DeleteRefused(s, node_id)
  IN  IF refused # "" THEN Raise(s, refused)
      ELSE
        LET node == s.nodes[node_id]
            to_delete == _collect_descendants(s, node_id)
        IN  IF In(None, to_delete) THEN Raise(s, "RecursionError")
            ELSE
              LET s1 == RemoveFromParent(s, node_id)
                  s2 == IF s1.exc # "" THEN s1
                        ELSE [s1 EXCEPT !.nodes = UnlinkAll(@, to_delete, 1)]
                  s3 == IF s2.exc # "" THEN s2 ELSE DeleteAll(s2, to_delete, 1)
                  s4 == IF s3.exc # "" THEN s3
                        ELSE RelocateCursor(s3, to_delete, node.parent)
              IN  IF s4.exc # "" THEN s4 ELSE touch(s4)

\* _copy_node_recursive.  The for loop over node.children reads the live
\* list by position, so children appended to node_id while its clone is being
\* built are visited too.  `fuel` bounds the depth of the recursion by the
\* number of nodes the store had when copy_subtree was called: a deeper
\* recursion is copying a node twice on its stack or a clone it is still
\* building, and goes on generating ids until Python's RecursionError, which
\* leaves a tree larger than the model follows (exc and cut).  A call that
\* needs more ids than the model's bound allows is abandoned (cut alone).
\* The Node built for a clone: title, status, body and a copy of the links
\* list of the node it is cloned from, the given parent, no children yet.
CloneOf_unlinked(node, parent_id) ==
  [title |-> node.title, status |-> node.status, parent |-> parent_id,
   children |-> <<>>, body |-> node.body, links |-> <<>>]

CloneOf(node, parent_id) ==
  [title |-> node.title, status |-> node.status, parent |-> parent_id,
   children |-> <<>>, body |-> node.body, links |-> node.links]

RECURSIVE CopyNode(_, _, _, _)
RECURSIVE CopyChildren(_, _, _, _, _)
CopyNode(s, node_id, parent_id, fuel) ==
  IF s.cut \/ s.exc # "" THEN s
  ELSE IF fuel = 0 THEN [s EXCEPT !.exc = "RecursionError", !.cut = TRUE]
  ELSE IF node_id \notin DOMAIN s.nodes THEN Raise(s, "KeyError")
  ELSE
    LET node == s.nodes[node_id]
        s1 == generate_id(s)
        new_id == s1.new
        new_node == CloneOf(node, parent_id)
    IN  IF s1.cut THEN s1
        ELSE
          LET s2 == [s1 EXCEPT !.nodes = Put(@, new_id, new_node)]
          IN  IF parent_id \notin DOMAIN s2.nodes THEN Raise(s2, "KeyError")
              ELSE
                LET s3 == [s2 EXCEPT !.nodes[parent_id].children = Append(@, new_id)]
                    s4 == CopyChildren(s3, node_id, new_id, 1, fuel - 1)
                IN  IF s4.cut \/ s4.exc # "" THEN s4 ELSE touch(s4)

CopyChildren(s, node_id, new_id, i, fuel) ==
  IF s.cut \/ s.exc # "" THEN s
  ELSE IF i > Len(s.nodes[node_id].children) THEN s
  ELSE CopyChildren(CopyNode(s, s.nodes[node_id].children[i], new_id, fuel),
                    node_id, new_id, i + 1, fuel)

_copy_node_recursive(s, node_id, parent_id) ==
  CopyNode(s, node_id, parent_id, Cardinality(DOMAIN s.nodes))

copy_subtree(s, node_id, new_parent_id) ==
  IF node_id \notin DOMAIN s.nodes THEN Raise(s, "ValueError")
  ELSE IF new_parent_id \notin DOMAIN s.nodes THEN Raise(s, "ValueError")
  ELSE _copy_node_recursive(s, node_id, new_parent_id)

\* get_path_to_root: node_id, its parent, ... while the id is not None, then
\* reversed.  `fuel` counts the ids the walk may still visit: a walk longer than
\* the store has nodes (and one absent id) is on a cycle of parent pointers and
\* never leaves the while loop; the result then holds the marker None.
RECURSIVE PathWalk(_, _, _)
PathWalk(ns, cur, fuel) ==
  IF cur = None THEN <<>>
  ELSE IF fuel = 0 THEN <<None>>
  ELSE <<cur>> \o PathWalk(ns, IF cur \in DOMAIN ns THEN ns[cur].parent ELSE None, fuel - 1)

Reversed(lst) == [i \in 1..Len(lst) |-> lst[Len(lst) + 1 - i]]

get_path_to_root(s, node_id) ==
  Reversed(PathWalk(s.nodes, node_id, Cardinality(DOMAIN s.nodes) + 1))

\* max over the nodes of len(get_path_to_root(nid)), starting from 0
MaxDepth(s) ==
  LET depths == {Len(get_path_to_root(s, nid)) : nid \in DOMAIN s.nodes} \cup {0}
  IN  CHOOSE d \in depths : \A e \in depths : e <= d

\* get_statistics: the dict it returns is s.ret; the call never returns when
\* one of the walks to root never ends.
get_statistics(s) ==
  IF \E nid \in DOMAIN s.nodes : In(None, get_path_to_root(s, nid))
  THEN Raise(s, "diverges")
  ELSE [s EXCEPT !.ret =
          [total |-> Cardinality(DOMAIN s.nodes),
           active |-> Cardinality({k \in DOMAIN s.nodes : s.nodes[k].status = "active"}),
           done |-> Cardinality({k \in DOMAIN s.nodes : s.nodes[k].status = "done"}),
           dropped |-> Cardinality({k \in DOMAIN s.nodes : s.nodes[k].status = "dropped"}),
           todo |-> Cardinality({k \in DOMAIN s.nodes : s.nodes[k].status = "todo"}),
           leaves |-> Cardinality({k \in DOMAIN s.nodes : s.nodes[k].children = <<>>}),
           max_depth |-> MaxDepth(s)]]

\* iter_tree: the pairs (node_id, depth) its generator yields when it is run to
\* the end.  As in _collect_descendants, a recursion deeper than the store has
\* nodes has a node twice on its stack and ends in Python's RecursionError;
\* the sequence then holds the marker None.
RECURSIVE IterFrom(_, _, _, _)
RECURSIVE IterChildren(_, _, _, _, _)
IterFrom(ns, node_id, depth, fuel) ==
  IF fuel = 0 THEN << <<None, depth>> >>
  ELSE IF node_id \in DOMAIN ns
       THEN << <<node_id, depth>> >> \o IterChildren(ns, ns[node_id].children, 1, depth + 1, fuel - 1)
       ELSE << <<node_id, depth>> >>

IterChildren(ns, children, i, depth, fuel) ==
  IF i > Len(children) THEN <<>>
  ELSE IterFrom(ns, children[i], depth, fuel) \o IterChildren(ns, children, i + 1, depth, fuel)

iter_tree(s, start) ==
  LET pairs == IterFrom(s.nodes, start, 0, Cardinality(DOMAIN s.nodes) + 1)
  IN  IF \E i \in 1..Len(pairs) : pairs[i][1] = None
      THEN Raise(s, "RecursionError")
      ELSE [s EXCEPT !.ret = pairs]

\* The keys of the store in the order a loop over self.nodes visits them: the
\* order of insertion, which is root first and then the generated ids in
\* increasing order (no operation re-inserts a key).
RECURSIVE Ascending(_)
Ascending(S) ==
  IF S = {} THEN <<>>
  ELSE LET m == CHOOSE x \in S : \A y \in S : x <= y
       IN  <<m>> \o Ascending(S \ {m})

StoreOrder(ns) == Ascending(DOMAIN ns)

\* get_backlinks as a list: [nid for nid, node in items if node_id in node.links]
Backlinks(ns, node_id) ==
  SelectSeq(StoreOrder(ns), LAMBDA nid : In(node_id, ns[nid].links))

get_backlinks(s, node_id) == [s EXCEPT !.ret = Backlinks(s.nodes, node_id)]

find_leaves(s) ==
  [s EXCEPT !.ret = SelectSeq(StoreOrder(s.nodes), LAMBDA nid : s.nodes[nid].children = <<>>)]

\* Mutant of find_orphans: the backlinks are not looked at.
find_orphans_unlinked(s) ==
  [s EXCEPT !.ret = SelectSeq(StoreOrder(s.nodes),
                              LAMBDA nid : /\ s.nodes[nid].children = <<>>
                                           /\ s.nodes[nid].links = <<>>)]

find_orphans(s) ==
  [s EXCEPT !.ret = SelectSeq(StoreOrder(s.nodes),
                              LAMBDA nid : /\ s.nodes[nid].children = <<>>
                                           /\ s.nodes[nid].links = <<>>
                                           /\ get_backlinks(s, nid).ret = <<>>)]

\* The name the tree was created with.
TreeName == "t"

\* Mutant of Node_to_dict: the parent is also left out when it is root.
Node_to_dict_rootless(id, node) ==
  LET data == [id |-> id, title |-> node.title, status |-> node.status,
               children |-> node.children, body |-> node.body, links |-> node.links]
  IN  IF node.parent # None /\ node.parent # root
      THEN ("parent" :> node.parent) @@ data
      ELSE data

\* Node.to_dict of the node stored under `id` (its id field is its key).  The
\* key "parent" is written only `if self.parent:`, and every id is a non-empty
\* string, so exactly when the parent is not None.  status.value is the
\* status's string.
Node_to_dict(id, node) ==
  LET data == [id |-> id, title |-> node.title, status |-> node.status,
               children |-> node.children, body |-> node.body, links |-> node.links]
  IN  IF node.parent # None
      THEN ("parent" :> node.parent) @@ data
      ELSE data

\* Node.from_dict: data.get(key, default) for every key but id and title.
Node_from_dict(data) ==
  [id |-> data.id,
   title |-> data.title,
   status |-> IF "status" \in DOMAIN data THEN data.status ELSE "active",
   parent |-> IF "parent" \in DOMAIN data THEN data.parent ELSE None,
   children |-> IF "children" \in DOMAIN data THEN data.children ELSE <<>>,
   body |-> IF "body" \in DOMAIN data THEN data.body ELSE "",
   links |-> IF "links" \in DOMAIN data THEN data.links ELSE <<>>]

\* ExplorationTree.to_dict (the two timestamps, which the model's state does
\* not hold, left out).
to_dict(s) ==
  [name |-> TreeName,
   current |-> s.current,
   nextId |-> s.next_id,
   history |-> s.history,
   nodes |-> [k \in DOMAIN s.nodes |-> Node_to_dict(k, s.nodes[k])]]

\* ExplorationTree.from_dict, __post_init__ included: a store without root
\* gets one and the history is reset.  The nodes carry their id field.
from_dict(data) ==
  LET loaded == [k \in DOMAIN data.nodes |-> Node_from_dict(data.nodes[k])]
      rootless == root \notin DOMAIN loaded
  IN  [name |-> data.name,
       current |-> data.current,
       next_id |-> data.nextId,
       history |-> IF rootless THEN <<root>> ELSE data.history,
       nodes |-> IF rootless
                 THEN Put(loaded, root, [id |-> root, title |-> "Root", status |-> "active",
                                         parent |-> None, children |-> <<>>,
                                         body |-> "", links |-> <<>>])
                 ELSE loaded]

\* The tree a session has after the tree was written out and read back.
Reloaded(s) ==
  LET tree == from_dict(to_dict(s))
  IN  [s EXCEPT !.nodes = [k \in DOMAIN tree.nodes |->
                             [title |-> tree.nodes[k].title, status |-> tree.nodes[k].status,
                              parent |-> tree.nodes[k].parent,
                              children |-> tree.nodes[k].children,
                              body |-> tree.nodes[k].body, links |-> tree.nodes[k].links]],
                !.current = tree.current,
                !.history = tree.history,
                !.next_id = tree.next_id]

\* ---------------------------------------------------------------- storage
\* The files of the trees directory.  `dir` maps the paths that exist to the
\* file they name, `inode` maps every file to its content: a rename moves a
\* file to another path while a session that has it open keeps writing to it.
\* A file that no path names and no session has open is gone.
\* The sessions saving the tree named TreeName.
Sessions == {1, 2}
\* Number of edits a session makes to its tree before it saves.
MaxEdits == 1

\* get_tree_path(name): <trees dir>/<name>.json, kept as stem and suffix.
get_tree_path(name) == <<name, ".json">>
\* path.with_suffix(suffix)
with_suffix(path, suffix) == <<path[1], suffix>>

\* The text json.dump writes for a dict, in the blocks by which the buffered
\* file hands it to the operating system: the keys come in the order of
\* to_dict, `nodes` last.  The first block holds the keys before `nodes`,
\* the second the nodes.
Document(data) ==
  << [name |-> data.name, current |-> data.current, nextId |-> data.nextId,
      history |-> data.history],
     [nodes |-> data.nodes] >>

\* A block no session wrote: the gap a write beyond the end of a file leaves.
Hole == [hole |-> TRUE]

\* json.load of a file's content: the dict, or JSONDecodeError when the text
\* is not one complete document.
json_load(content) ==
  IF /\ Len(content) = 2
     /\ DOMAIN content[1] = {"name", "current", "nextId", "history"}
     /\ DOMAIN content[2] = {"nodes"}
  THEN [name |-> content[1].name, current |-> content[1].current,
        nextId |-> content[1].nextId, history |-> content[1].history,
        nodes |-> content[2].nodes]
  ELSE [exc |-> "JSONDecodeError"]

\* f.write of one block at the position `off` (in blocks) of the open file.
WriteAt(content, off, block) ==
  [i \in 1..(IF Len(content) > off + 1 THEN Len(content) ELSE off + 1) |->
     IF i = off + 1 THEN block
     ELSE IF i <= Len(content) THEN content[i]
     ELSE Hole]

\* The number a new file gets: the smallest one no file has.
NewFile(files) ==
  CHOOSE k \in 1..(Cardinality(DOMAIN files) + 1) :
    k \notin DOMAIN files /\ \A j \in 1..(k - 1) : j \in DOMAIN files

\* The files that are left when the paths of `d` and the open files `open`
\* are all that refer to them.
Kept(d, files, open) ==
  [k \in {j \in DOMAIN files : j \in open \/ \E q \in DOMAIN d : d[q] = j} |-> files[k]]

\* The state a session's tree has between two calls.
Settled(s) == [s EXCEPT !.touched = FALSE, !.ret = "ok", !.gen = {}, !.new = None]

\* The tree file exists, written by `new` (create, then save_tree), and both
\* sessions have loaded it.
InitStore ==
  /\ dir = (get_tree_path(TreeName) :> 1)
  /\ inode = (1 :> Document(to_dict(create)))
  /\ sess = [p \in Sessions |->
               [tree |-> create, edits |-> 0, pc |-> "idle", fd |-> 0, off |-> 0, exc |-> ""]]

Init == InitTree /\ InitStore

\* The edits a session makes to its tree before saving.
EditCalls(tree) ==
  {add_child(tree, tree.current, "t", FALSE),
   set_status(tree, tree.current, "done", FALSE),
   append_body(tree, tree.current, "x")}

SessionEditBy(p) ==
  /\ sess[p].pc = "idle"
  /\ sess[p].edits < MaxEdits
  /\ \E s \in EditCalls(sess[p].tree) :
       /\ s.exc = "" /\ ~s.cut
       /\ sess' = [sess EXCEPT ![p].tree = Settled(s), ![p].edits = @ + 1]
  /\ UNCHANGED <<treevars, dir, inode>>

SessionEdit == \E p \in Sessions : SessionEditBy(p)

\* shutil.copy2(src, dst): dst is created, or overwritten in place.
copy2(d, files, src, dst) ==
  IF dst \in DOMAIN d
  THEN [dir |-> d, inode |-> [files EXCEPT ![d[dst]] = files[d[src]]]]
  ELSE [dir |-> (dst :> NewFile(files)) @@ d,
        inode |-> (NewFile(files) :> files[d[src]]) @@ files]

\* save_tree, first step: `if backup and path.exists(): shutil.copy2(...)`.
SaveBackup ==
  \E p \in Sessions :
    LET path == get_tree_path(TreeName)
        backup_path == with_suffix(path, ".json.bak")
        fs == IF path \in DOMAIN dir THEN copy2(dir, inode, path, backup_path)
              ELSE [dir |-> dir, inode |-> inode]
    IN  /\ sess[p].pc = "idle"
        /\ dir' = fs.dir
        /\ inode' = fs.inode
        /\ sess' = [sess EXCEPT ![p].pc = "open"]
        /\ UNCHANGED treevars

\* save_tree: open(temp_path, "w") creates the file or empties the one that
\* is there; the session's position in it is 0.
SaveOpenTemp ==
  \E p \in Sessions :
    LET temp_path == with_suffix(get_tree_path(TreeName), ".json.tmp")
    IN  /\ sess[p].pc = "open"
        /\ IF temp_path \in DOMAIN dir
           THEN /\ inode' = [inode EXCEPT ![dir[temp_path]] = <<>>]
                /\ dir' = dir
                /\ sess' = [sess EXCEPT ![p].pc = "write", ![p].fd = dir[temp_path], ![p].off = 0]
           ELSE /\ inode' = (NewFile(inode) :> <<>>) @@ inode
                /\ dir' = (temp_path :> NewFile(inode)) @@ dir
                /\ sess' = [sess EXCEPT ![p].pc = "write", ![p].fd = NewFile(inode), ![p].off = 0]
        /\ UNCHANGED treevars

\* save_tree: json.dump(tree.to_dict(), f) hands the next block of the text
\* to the file the session opened, at the session's position; the `with`
\* block closes the file after the last one.
SaveWrite ==
  \E p \in Sessions :
    LET doc == Document(to_dict(sess[p].tree))
        off == sess[p].off
    IN  /\ sess[p].pc = "write"
        /\ inode' = [inode EXCEPT ![sess[p].fd] = WriteAt(@, off, doc[off + 1])]
        /\ sess' = [sess EXCEPT ![p].off = off + 1,
                                ![p].pc = IF off + 1 = Len(doc) THEN "replace" ELSE "write"]
        /\ UNCHANGED <<treevars, dir>>

\* save_tree: temp_path.replace(path) renames the temp file over the tree
\* file; FileNotFoundError when there is no temp file.
SaveReplace ==
  \E p \in Sessions :
    LET path == get_tree_path(TreeName)
        temp_path == with_suffix(path, ".json.tmp")
    IN  /\ sess[p].pc = "replace"
        /\ IF temp_path \in DOMAIN dir
           THEN /\ dir' = [q \in ((DOMAIN dir) \ {temp_path}) \cup {path} |->
                             IF q = path THEN dir[temp_path] ELSE dir[q]]
                /\ inode' = Kept(dir', inode, {sess[q].fd : q \in {r \in Sessions : sess[r].pc = "write"}})
                /\ sess' = [sess EXCEPT ![p].pc = "done"]
           ELSE /\ dir' = dir
                /\ inode' = inode
                /\ sess' = [sess EXCEPT ![p].pc = "failed", ![p].exc = "FileNotFoundError"]
        /\ UNCHANGED treevars

SaveNext ==
  \/ SessionEdit
  \/ SaveBackup
  \/ SaveOpenTemp
  \/ SaveWrite
  \/ SaveReplace

\* Two sessions that loaded the same tree edit it and save it concurrently.
SpecSave == Init /\ [][SaveNext]_vars

\* ----------------------------------------------------- stored trees
\* The operations on stored trees, each run from start to end by one session
\* while no other session is saving.  `fs` is the directory with its files:
\* [dir, inode], with the outcome field exc ("" when the call returned).
\* The names trees are stored under.
Names == {"t", "u"}

FS == [dir |-> dir, inode |-> inode, exc |-> ""]

\* path.exists()
exists(fs, path) == path \in DOMAIN fs.dir

\* path.unlink()
unlink(fs, path) ==
  LET d == [q \in (DOMAIN fs.dir) \ {path} |-> fs.dir[q]]
  IN  [fs EXCEPT !.dir = d, !.inode = Kept(d, fs.inode, {})]

\* list_trees: the stems of the *.json files.
list_trees(fs) == {name \in Names : exists(fs, get_tree_path(name))}

\* tree.to_dict() of a tree that from_dict built: its own name is written.
tree_to_dict(tree) == [to_dict(tree) EXCEPT !.name = tree.name]

\* load_tree: the tree from_dict builds from the file, or the exception.
load_tree(fs, name) ==
  LET path == get_tree_path(name)
  IN  IF ~exists(fs, path) THEN [exc |-> "FileNotFoundError"]
      ELSE LET data == json_load(fs.inode[fs.dir[path]])
           IN  IF "exc" \in DOMAIN data THEN data
               ELSE [exc |-> ""] @@ from_dict(data)

\* save_tree(tree, backup) run without interruption: the backup copy, the
\* temp file opened (created or emptied), written and closed, and renamed
\* over the tree file.
save_tree(fs, tree, backup) ==
  LET path == get_tree_path(tree.name)
      backup_path == with_suffix(path, ".json.bak")
      temp_path == with_suffix(path, ".json.tmp")
      b == IF backup /\ exists(fs, path)
           THEN copy2(fs.dir, fs.inode, path, backup_path)
           ELSE [dir |-> fs.dir, inode |-> fs.inode]
      f == IF temp_path \in DOMAIN b.dir THEN b.dir[temp_path] ELSE NewFile(b.inode)
      written == (f :> Document(tree_to_dict(tree))) @@ b.inode
      d == [q \in ((DOMAIN b.dir) \ {temp_path}) \cup {path} |->
              IF q = path THEN f ELSE b.dir[q]]
  IN  [fs EXCEPT !.dir = d, !.inode = Kept(d, written, {})]

delete_tree(fs, name) ==
  LET path == get_tree_path(name)
      backup_path == with_suffix(path, ".json.bak")
      fs1 == IF exists(fs, path) THEN unlink(fs, path) ELSE fs
  IN  IF exists(fs1, backup_path) THEN unlink(fs1, backup_path) ELSE fs1

\* Mutant of rename_tree: the destination is not checked.
rename_tree_overwriting(fs, old_name, new_name) ==
  LET old_path == get_tree_path(old_name)
      old_backup == with_suffix(old_path, ".json.bak")
  IN  IF ~exists(fs, old_path) THEN [fs EXCEPT !.exc = "FileNotFoundError"]
      ELSE LET tree == load_tree(fs, old_name)
           IN  IF tree.exc # "" THEN [fs EXCEPT !.exc = tree.exc]
               ELSE LET fs1 == save_tree(fs, [tree EXCEPT !.name = new_name], FALSE)
                        fs2 == unlink(fs1, old_path)
                    IN  IF exists(fs2, old_backup) THEN unlink(fs2, old_backup) ELSE fs2

rename_tree(fs, old_name, new_name) ==
  LET old_path == get_tree_path(old_name)
      new_path == get_tree_path(new_name)
      old_backup == with_suffix(old_path, ".json.bak")
  IN  IF ~exists(fs, old_path) THEN [fs EXCEPT !.exc = "FileNotFoundError"]
      ELSE IF exists(fs, new_path) THEN [fs EXCEPT !.exc = "FileExistsError"]
      ELSE LET tree == load_tree(fs, old_name)
           IN  IF tree.exc # "" THEN [fs EXCEPT !.exc = tree.exc]
               ELSE LET fs1 == save_tree(fs, [tree EXCEPT !.name = new_name], FALSE)
                        fs2 == unlink(fs1, old_path)
                    IN  IF exists(fs2, old_backup) THEN unlink(fs2, old_backup) ELSE fs2

copy_tree(fs, src_name, dst_name) ==
  LET src_path == get_tree_path(src_name)
      dst_path == get_tree_path(dst_name)
  IN  IF ~exists(fs, src_path) THEN [fs EXCEPT !.exc = "FileNotFoundError"]
      ELSE IF exists(fs, dst_path) THEN [fs EXCEPT !.exc = "FileExistsError"]
      ELSE LET tree == load_tree(fs, src_name)
           IN  IF tree.exc # "" THEN [fs EXCEPT !.exc = tree.exc]
               ELSE save_tree(fs, [tree EXCEPT !.name = dst_name], FALSE)

\* One storage call: the directory takes the state the call leaves behind.
Store(fs) ==
  /\ dir' = fs.dir
  /\ inode' = fs.inode
  /\ UNCHANGED <<treevars, sess>>

\* The session at work on the tree edits it and saves it under the name it
\* was created with.
EditTree == SessionEditBy(1)

SaveTree == Store(save_tree(FS, [name |-> TreeName] @@ sess[1].tree, TRUE))

DeleteTree == \E name \in Names : Store(delete_tree(FS, name))

RenameTree == \E old_name \in Names, new_name \in Names : Store(rename_tree(FS, old_name, new_name))

CopyTree == \E src_name \in Names, dst_name \in Names : Store(copy_tree(FS, src_name, dst_name))

StoreNext ==
  \/ EditTree
  \/ SaveTree
  \/ DeleteTree
  \/ RenameTree
  \/ CopyTree

\* A session edits and saves the tree, and stored trees are deleted, renamed
\* and copied, one call after the other.
SpecStore == Init /\ [][StoreNext]_vars

\* ---------------------------------------------------------------- actions
\* One call of a public method: the tree takes the state the call leaves
\* behind, also when the call ends by raising.  A call that never returns
\* ("diverges"), or leaves a tree larger than the model follows, has no
\* successor.
\* `updated` is the tree's stamp, kept as "differs from `created`"; `used`
\* collects every id ever generated or present in the store.
Returns(s) == ~s.cut /\ s.exc # "diverges" /\ Weight(s) <= MaxSize

Do(s) ==
  /\ Returns(s)
  /\ nodes' = s.nodes
  /\ current' = s.current
  /\ history' = s.history
  /\ next_id' = s.next_id
  /\ updated' = (updated \/ s.touched)
  /\ used' = used \cup s.gen \cup DOMAIN s.nodes
  /\ UNCHANGED storevars

\* The outcomes of every call of each public method on the current tree, over
\* the inputs the model draws.
AddChildCalls ==
  {add_child(Self, parent_id, title, enter) :
     parent_id \in Ids, title \in Titles, enter \in BOOLEAN}
AddSiblingCalls ==
  {add_sibling(Self, sibling_id, title, enter) :
     sibling_id \in Ids, title \in Titles, enter \in BOOLEAN}
GoToCalls == {go_to(Self, node_id) : node_id \in Ids}
GoDownCalls == {go_down(Self, index) : index \in Indexes}
SetStatusCalls ==
  {set_status(Self, node_id, status, auto_up) :
     node_id \in Ids, status \in StatusInputs, auto_up \in BOOLEAN}
UpdateNodeCalls ==
  {update_node(Self, node_id, NoArg, NoArg, NoArg, Arg(links)) :
     node_id \in Ids, links \in LinkInputs}
AppendBodyCalls == {append_body(Self, node_id, text) : node_id \in Ids, text \in Texts}
AddLinkCalls == {add_link(Self, from_id, to_id) : from_id \in Ids, to_id \in Ids}
RemoveLinkCalls == {remove_link(Self, from_id, to_id) : from_id \in Ids, to_id \in Ids}
MoveNodeCalls ==
  {move_node(Self, node_id, new_parent_id) : node_id \in Ids, new_parent_id \in Ids}
DeleteNodeCalls == {delete_node(Self, node_id) : node_id \in Ids}
CopySubtreeCalls ==
  {copy_subtree(Self, node_id, new_parent_id) : node_id \in Ids, new_parent_id \in Ids}

Calls ==
  AddChildCalls \cup AddSiblingCalls \cup GoToCalls \cup GoDownCalls
    \cup {go_up(Self), go_next_sibling(Self), go_prev_sibling(Self), go_root(Self), go_back(Self)}
    \cup SetStatusCalls \cup UpdateNodeCalls \cup AppendBodyCalls \cup AddLinkCalls \cup RemoveLinkCalls
    \cup MoveNodeCalls \cup DeleteNodeCalls \cup CopySubtreeCalls

AddChild == \E s \in AddChildCalls : Do(s)

AddSibling == \E s \in AddSiblingCalls : Do(s)

GoTo == \E s \in GoToCalls : Do(s)

GoUp == Do(go_up(Self))

GoDown == \E s \in GoDownCalls : Do(s)

GoNextSibling == Do(go_next_sibling(Self))

GoPrevSibling == Do(go_prev_sibling(Self))

GoRoot == Do(go_root(Self))

GoBack == Do(go_back(Self))

SetStatus == \E s \in SetStatusCalls : Do(s)

UpdateNode == \E s \in UpdateNodeCalls : Do(s)

AppendBody == \E s \in AppendBodyCalls : Do(s)

AddLink == \E s \in AddLinkCalls : Do(s)

RemoveLink == \E s \in RemoveLinkCalls : Do(s)

MoveNode == \E s \in MoveNodeCalls : Do(s)

DeleteNode == \E s \in DeleteNodeCalls : Do(s)

CopySubtree == \E s \in CopySubtreeCalls : Do(s)

\* The two queries change nothing; they are steps when they return.
GetStatistics == Do(get_statistics(Self))

IterTree == \E start \in Ids : Do(iter_tree(Self, start))

GetBacklinks == \E node_id \in Ids : Do(get_backlinks(Self, node_id))

FindLeaves == Do(find_leaves(Self))

FindOrphans == Do(find_orphans(Self))

\* The tree is serialized and deserialized between two calls.
Reload == Do(Reloaded(Self))

Next ==
  \/ AddChild
  \/ AddSibling
  \/ GoTo
  \/ GoUp
  \/ GoDown
  \/ GoNextSibling
  \/ GoPrevSibling
  \/ GoRoot
  \/ GoBack
  \/ SetStatus
  \/ UpdateNode
  \/ AppendBody
  \/ AddLink
  \/ RemoveLink
  \/ MoveNode
  \/ DeleteNode
  \/ CopySubtree
  \/ GetStatistics
  \/ IterTree
  \/ GetBacklinks
  \/ FindLeaves
  \/ FindOrphans
  \/ Reload

Spec == Init /\ [][Next]_vars

\* The operations that change the tree, update_node (whose links argument is
\* stored as given) left out.
NextWithoutUpdateNode ==
  \/ AddChild
  \/ AddSibling
  \/ GoTo
  \/ GoUp
  \/ GoDown
  \/ GoNextSibling
  \/ GoPrevSibling
  \/ GoRoot
  \/ GoBack
  \/ SetStatus
  \/ AddLink
  \/ RemoveLink
  \/ MoveNode
  \/ DeleteNode
  \/ CopySubtree

SpecWithoutUpdateNode == Init /\ [][NextWithoutUpdateNode]_vars

\* ----------------------------------------------------------------- claims
\* What a claim says of a call is stated of the call's outcome on every
\* reachable tree and for every input the model draws.

\* The ids strictly below node_id by the children lists of `ns`.
RECURSIVE Below(_, _, _)
Below(ns, frontier, seen) ==
  LET kids == {c \in Ids \cup DOMAIN ns :
                 \E p \in frontier : p \in DOMAIN ns /\ In(c, ns[p].children)}
      fresh == kids \ seen
  IN  IF fresh = {} THEN seen ELSE Below(ns, fresh, seen \cup fresh)

Descendants(ns, node_id) == Below(ns, {node_id}, {})

\* The removal set of delete_node(node_id): node_id and its descendants.
RemovalSet(ns, node_id) == {node_id} \cup Descendants(ns, node_id)

\* How often x occurs in lst.
Count(lst, x) == Cardinality({i \in 1..Len(lst) : lst[i] = x})

\* The call left every field of the tree as it was.
SameTree(s) ==
  /\ s.nodes = nodes
  /\ s.current = current
  /\ s.history = history
  /\ s.next_id = next_id

\* The call returned without raising.
Succeeds(s) == Returns(s) /\ s.exc = ""

\* The model knows how the call ends: it was not abandoned, or it raised.
Decided(s) == ~s.cut \/ s.exc # ""

\* C1: in every reachable state `current` is a key of `nodes`.
C1_CurrentIsNode == current \in DOMAIN nodes

\* C2: in every reachable state `history` is non-empty and its last element
\* equals `current` (the states right after a delete_node that removed
\* `current` are among them).
C2_HistoryEndsAtCurrent ==
  /\ history # <<>>
  /\ history[Len(history)] = current

\* C3: after every successful delete_node(id) no entry of `history` names a
\* node of the removal set, whether or not `current` was in it; hence every
\* history entry is a key of `nodes` in every reachable state.
C3_HistoryNamesNodes ==
  /\ \A node_id \in Ids :
       LET s == delete_node(Self, node_id)
       IN  Succeeds(s) =>
             \A i \in 1..Len(s.history) : s.history[i] \notin RemovalSet(nodes, node_id)
  /\ \A i \in 1..Len(history) : history[i] \in DOMAIN nodes

\* Following `parent` from n reaches root within `fuel` steps.
RECURSIVE ReachesRoot(_, _, _)
ReachesRoot(ns, n, fuel) ==
  IF n = root THEN TRUE
  ELSE IF fuel = 0 \/ n \notin DOMAIN ns THEN FALSE
  ELSE ReachesRoot(ns, ns[n].parent, fuel - 1)

\* C4: in every reachable state the parent relation is acyclic: following
\* `parent` from any node reaches root without revisiting a node (so within
\* as many steps as there are nodes).
C4_ParentAcyclic ==
  \A n \in DOMAIN nodes : ReachesRoot(nodes, n, Cardinality(DOMAIN nodes) - 1)

\* C5: for existing ids with id # root, move_node(id, new_parent_id) fails
\* whenever new_parent_id is id or a descendant of id, and leaves the tree
\* unchanged.
C5_MoveUnderSelfFails ==
  \A node_id \in DOMAIN nodes, new_parent_id \in DOMAIN nodes :
    (node_id # root /\ new_parent_id \in RemovalSet(nodes, node_id))
      => LET s == move_node(Self, node_id, new_parent_id)
         IN  s.exc = "ValueError" /\ SameTree(s)
\* C6: for existing ids with id # root and new_parent_id neither id nor a
\* descendant of id, move_node(id, new_parent_id) succeeds; afterwards
\* id.parent is new_parent_id, id is the last of new_parent_id's children and
\* id occurs in no other children list (nor twice in that one).
C6_MoveSucceeds ==
  \A node_id \in DOMAIN nodes, new_parent_id \in DOMAIN nodes :
    (node_id # root /\ new_parent_id \notin RemovalSet(nodes, node_id))
      => LET s == move_node(Self, node_id, new_parent_id)
         IN  /\ s.exc = ""
             /\ s.nodes[node_id].parent = new_parent_id
             /\ LET ch == s.nodes[new_parent_id].children
                IN  ch # <<>> /\ ch[Len(ch)] = node_id
             /\ \A k \in DOMAIN s.nodes :
                  Count(s.nodes[k].children, node_id) = IF k = new_parent_id THEN 1 ELSE 0

\* C7: in every reachable state every non-root node's `parent` names an
\* existing node whose `children` holds that node's id exactly once.
C7_ParentHoldsChildOnce ==
  \A n \in (DOMAIN nodes) \ {root} :
    /\ nodes[n].parent \in DOMAIN nodes
    /\ Count(nodes[nodes[n].parent].children, n) = 1

\* A node sits under a node generated after it (a move put it there) and has
\* a sibling.
C7_Witness ==
  \E n \in (DOMAIN nodes) \ {root} :
    /\ nodes[n].parent \in DOMAIN nodes
    /\ nodes[n].parent > n
    /\ Len(nodes[nodes[n].parent].children) >= 2

\* C8: in every reachable state root exists and has no parent;
\* delete_node(root) and move_node(root, x) always fail and leave the tree
\* unchanged, and no call removes root or gives it a parent.
C8_RootStays ==
  /\ root \in DOMAIN nodes
  /\ nodes[root].parent = None
  /\ LET s == delete_node(Self, root) IN s.exc = "ValueError" /\ SameTree(s)
  /\ \A x \in Ids :
       LET s == move_node(Self, root, x) IN s.exc = "ValueError" /\ SameTree(s)
  /\ \A s \in Calls : root \in DOMAIN s.nodes /\ s.nodes[root].parent = None

\* The cursor is on a grandchild of root, and deleting or moving root is
\* refused.
C8_Witness ==
  /\ current \in DOMAIN nodes
  /\ nodes[current].parent \notin {None, root}
  /\ delete_node(Self, root).exc = "ValueError"
  /\ move_node(Self, root, current).exc = "ValueError"

\* C9: every id generate_id returns (through add_child, add_sibling,
\* copy_subtree) differs from every id generated earlier and from every id
\* now or formerly in `nodes`; the ids of one call differ from each other;
\* `next_id` never decreases.
C9_IdsNeverReused ==
  /\ DOMAIN nodes \subseteq used
  /\ \A s \in Calls :
       /\ s.gen \cap used = {}
       /\ Cardinality(s.gen) = s.next_id - next_id
       /\ s.next_id >= next_id

\* Some generated id has been deleted, and add_child generates another.
C9_Witness ==
  /\ \E k \in used : k \notin DOMAIN nodes
  /\ \E s \in AddChildCalls : Succeeds(s) /\ s.gen # {}

\* C10: after a successful delete_node(id) the keys of `nodes` are the
\* previous keys minus id and its descendants, id is not among its former
\* parent's children, and no surviving node's `links` holds a removed id.
C10_DeleteRemovesSubtreeAndLinks ==
  \A node_id \in Ids :
    LET s == delete_node(Self, node_id)
        gone == RemovalSet(nodes, node_id)
    IN  Succeeds(s) =>
          /\ DOMAIN s.nodes = (DOMAIN nodes) \ gone
          /\ \A k \in DOMAIN s.nodes :
               /\ ~In(node_id, s.nodes[k].children)
               /\ \A g \in gone : ~In(g, s.nodes[k].links)

\* C11: a successful delete_node(id) puts the cursor on id's former parent
\* exactly when `current` was id or a descendant of id; when `current` is
\* outside the removal set it is left unchanged.
C11_DeleteRelocatesCursor ==
  \A node_id \in Ids :
    LET s == delete_node(Self, node_id)
    IN  Succeeds(s) =>
          s.current = IF current \in RemovalSet(nodes, node_id)
                      THEN nodes[node_id].parent
                      ELSE current

\* The cursor is away from root in the subtree of a node whose deletion moves
\* it to that node's parent, and outside the subtree of another node whose
\* deletion leaves it in place.
C11_Witness ==
  /\ \E node_id \in (DOMAIN nodes) \ {root} :
       /\ current \in RemovalSet(nodes, node_id)
       /\ Succeeds(delete_node(Self, node_id))
       /\ delete_node(Self, node_id).current = nodes[node_id].parent
  /\ \E node_id \in (DOMAIN nodes) \ {root} :
       /\ current \notin RemovalSet(nodes, node_id)
       /\ nodes[node_id].parent # current
       /\ Succeeds(delete_node(Self, node_id))
       /\ delete_node(Self, node_id).current = current

\* The subtree of c in ns1 has the shape of the subtree of o in ns0: as many
\* children at every node, in the same order, each child pointing back to its
\* parent.
RECURSIVE SameShape(_, _, _, _, _)
SameShape(ns0, o, ns1, c, fuel) ==
  /\ fuel > 0
  /\ o \in DOMAIN ns0
  /\ c \in DOMAIN ns1
  /\ Len(ns1[c].children) = Len(ns0[o].children)
  /\ \A i \in 1..Len(ns0[o].children) :
       /\ ns1[c].children[i] \in DOMAIN ns1
       /\ ns1[ns1[c].children[i]].parent = c
       /\ SameShape(ns0, ns0[o].children[i], ns1, ns1[c].children[i], fuel - 1)

\* What C12 says of copy_subtree(node_id, new_parent_id) with outcome s.
CloneAdded(s, node_id, new_parent_id) ==
  /\ s.exc = ""
  /\ s.nodes[new_parent_id].children # <<>>
  /\ LET ch == s.nodes[new_parent_id].children
         c == ch[Len(ch)]
         clone == RemovalSet(s.nodes, c)
     IN  /\ ch = Append(nodes[new_parent_id].children, c)
         /\ s.nodes[c].parent = new_parent_id
         /\ SameShape(nodes, node_id, s.nodes, c, Cardinality(DOMAIN nodes))
         /\ clone \cap DOMAIN nodes = {}
         /\ Cardinality(clone) = Cardinality(RemovalSet(nodes, node_id))
         /\ DOMAIN s.nodes = (DOMAIN nodes) \cup clone

\* C12: for every pair of existing ids, copy_subtree(id, new_parent_id) adds
\* a clone with the shape and child order the subtree of id had before the
\* call, made of ids that were not in `nodes`, with as many nodes as that
\* subtree, attached as the last child of new_parent_id; also when
\* new_parent_id is id or lies inside id's subtree.
C12_CopyAddsIsomorphicClone ==
  \A node_id \in DOMAIN nodes, new_parent_id \in DOMAIN nodes :
    LET s == copy_subtree(Self, node_id, new_parent_id)
    IN  Decided(s) => CloneAdded(s, node_id, new_parent_id)

\* The call ends by itself: it neither loops for ever nor recurses until the
\* interpreter stops it.
Terminates(s) == s.exc \notin {"diverges", "RecursionError"}

\* C13: every public operation called on a reachable tree terminates,
\* returning or raising its failure; in particular copy_subtree for every
\* pair of existing ids, and delete_node, get_statistics and iter_tree on
\* every reachable state.
C13_OperationsTerminate ==
  /\ \A s \in Calls : Terminates(s)
  /\ Terminates(get_statistics(Self))
  /\ \A start \in Ids : Terminates(iter_tree(Self, start))

\* The call failed with the store's error and left the tree as it was.
Failed(s) == s.exc = "ValueError" /\ SameTree(s)

\* C14: whenever a public operation fails (add_child with an absent parent,
\* add_sibling on root or an absent id, go_to / set_status / update_node /
\* append_body / add_link / remove_link with an absent id, move_node or
\* delete_node on root or absent ids, copy_subtree with an absent id), nodes,
\* current, history and next_id are what they were before the call.
C14_FailureChangesNothing ==
  LET Absent == Ids \ DOMAIN nodes
  IN  /\ \A id \in Absent :
           /\ \A title \in Titles, enter \in BOOLEAN :
                /\ Failed(add_child(Self, id, title, enter))
                /\ Failed(add_sibling(Self, id, title, enter))
           /\ Failed(go_to(Self, id))
           /\ \A status \in StatusInputs, auto_up \in BOOLEAN :
                Failed(set_status(Self, id, status, auto_up))
           /\ \A links \in LinkInputs :
                /\ Failed(update_node(Self, id, NoArg, NoArg, NoArg, Arg(links)))
                /\ Failed(update_node(Self, id, Arg("u"), Arg("x"), Arg("done"), NoArg))
           /\ \A text \in Texts : Failed(append_body(Self, id, text))
           /\ \A other \in Ids :
                /\ Failed(add_link(Self, id, other))
                /\ Failed(add_link(Self, other, id))
                /\ Failed(remove_link(Self, id, other))
                /\ Failed(move_node(Self, id, other))
                /\ other # root => Failed(move_node(Self, other, id))
                /\ Failed(copy_subtree(Self, id, other))
                /\ Failed(copy_subtree(Self, other, id))
           /\ Failed(delete_node(Self, id))
      /\ \A title \in Titles, enter \in BOOLEAN : Failed(add_sibling(Self, root, title, enter))
      /\ \A other \in Ids : Failed(move_node(Self, root, other))
      /\ Failed(delete_node(Self, root))
      /\ \A s \in Calls : s.exc = "ValueError" => SameTree(s)

\* The tree has children, links and a cursor away from root, and some id is
\* no longer in the store: the calls naming it fail.
C14_Witness ==
  /\ current # root
  /\ \E k \in DOMAIN nodes : nodes[k].links # <<>>
  /\ \E id \in used \ DOMAIN nodes :
       /\ Failed(go_to(Self, id))
       /\ Failed(add_link(Self, root, id))
       /\ Failed(copy_subtree(Self, root, id))

\* C15: add_child(parent_id, title) with an existing parent creates one node
\* with a fresh id whose parent is parent_id and puts it last among
\* parent_id's children, the other children keeping their order; entering
\* (the default) it makes the node `current` and appends its id to history,
\* with enter=False `current` and `history` are unchanged.
C15_AddChildAppends ==
  \A parent_id \in DOMAIN nodes, title \in Titles, enter \in BOOLEAN :
    LET s == add_child(Self, parent_id, title, enter)
        n == s.new
    IN  Decided(s) =>
          /\ s.exc = ""
          /\ s.gen = {n}
          /\ n \notin used
          /\ DOMAIN s.nodes = (DOMAIN nodes) \cup {n}
          /\ s.nodes[n] = Node(title, parent_id)
          /\ s.nodes[parent_id].children = Append(nodes[parent_id].children, n)
          /\ \A k \in (DOMAIN nodes) \ {parent_id} : s.nodes[k] = nodes[k]
          /\ s.nodes[parent_id] = [nodes[parent_id] EXCEPT !.children = Append(@, n)]
          /\ IF enter
             THEN s.current = n /\ s.history = Append(history, n)
             ELSE s.current = current /\ s.history = history

\* A node that has a child already gets another, in both variants.
C15_Witness ==
  \E parent_id \in DOMAIN nodes :
    /\ nodes[parent_id].children # <<>>
    /\ parent_id # current
    /\ \A enter \in BOOLEAN : Succeeds(add_child(Self, parent_id, "t", enter))

\* C16: add_sibling(sibling_id, title) on an existing non-root node puts the
\* new node into the parent's children right after sibling_id (not at the
\* end), the other children keeping their order, and moves the cursor to the
\* new node; a go_prev_sibling that follows moves the cursor back to
\* sibling_id.
C16_AddSiblingInsertsAfter ==
  \A sibling_id \in (DOMAIN nodes) \ {root}, title \in Titles, enter \in BOOLEAN :
    LET s == add_sibling(Self, sibling_id, title, enter)
        n == s.new
        p == nodes[sibling_id].parent
    IN  Decided(s) =>
          /\ s.exc = ""
          /\ n \notin DOMAIN nodes
          /\ s.nodes[n].parent = p
          /\ LET ch == nodes[p].children
                 i == Index(ch, sibling_id)
             IN  /\ i > 0
                 /\ s.nodes[p].children =
                      SubSeq(ch, 1, i) \o <<n>> \o SubSeq(ch, i + 1, Len(ch))
          /\ enter =>
               /\ s.current = n
               /\ LET b == go_prev_sibling(s)
                  IN  b.exc = "" /\ b.ret = "True" /\ b.current = sibling_id

\* A node that is not the last of its parent's children gets a sibling.
C16_Witness ==
  \E sibling_id \in (DOMAIN nodes) \ {root} :
    LET ch == nodes[nodes[sibling_id].parent].children
        s == add_sibling(Self, sibling_id, "t", TRUE)
    IN  /\ Index(ch, sibling_id) < Len(ch)
        /\ Decided(s)
        /\ s.exc = ""
        /\ s.current = s.new

\* C17: go_to(id) on an existing id changes nothing when id = current;
\* otherwise it appends exactly id to history and sets current = id, removing
\* and deduplicating no earlier entry: going to A, then B, then A leaves a
\* history ending in A, B, A.
C17_GoToAppends ==
  /\ \A id \in DOMAIN nodes :
       LET s == go_to(Self, id)
       IN  /\ s.exc = ""
           /\ s.nodes = nodes
           /\ s.next_id = next_id
           /\ IF id = current
              THEN s.history = history /\ s.current = current
              ELSE s.history = Append(history, id) /\ s.current = id
  /\ \A A \in DOMAIN nodes, B \in DOMAIN nodes :
       (A # B /\ A # current) =>
         LET s == go_to(go_to(go_to(Self, A), B), A)
         IN  s.exc = "" /\ s.current = A /\ s.history = history \o <<A, B, A>>

\* The history names a node that is not the current one, which go_to can
\* visit again.
C17_Witness ==
  \E id \in DOMAIN nodes :
    /\ id # current
    /\ In(id, history)
    /\ Succeeds(go_to(Self, id))
    /\ Count(go_to(Self, id).history, id) >= 2

\* C18: go_back returns true exactly when history had more than one entry;
\* history then loses exactly its last entry and current becomes the new
\* last entry; with one entry go_back returns false and changes nothing, so
\* the history never has fewer than one entry.
C18_GoBackPops ==
  /\ Len(history) >= 1
  /\ LET s == go_back(Self)
     IN  /\ s.exc = ""
         /\ s.ret = IF Len(history) > 1 THEN "True" ELSE "False"
         /\ s.nodes = nodes
         /\ s.next_id = next_id
         /\ Len(s.history) >= 1
         /\ IF Len(history) > 1
            THEN /\ s.history = SubSeq(history, 1, Len(history) - 1)
                 /\ s.current = history[Len(history) - 1]
            ELSE s.history = history /\ s.current = current

\* The history has three entries and go_back moves the cursor.
C18_Witness ==
  /\ Len(history) >= 3
  /\ go_back(Self).ret = "True"
  /\ go_back(Self).current # current
  /\ Succeeds(go_back(Self))

\* What C19 says of set_status(node_id, status, auto_up) with outcome s.
StatusSet(s, node_id, status, auto_up) ==
  /\ s.exc = ""
  /\ s.nodes = [nodes EXCEPT ![node_id].status = status]
  /\ s.next_id = next_id
  /\ IF auto_up /\ status \in {"done", "dropped"} /\ nodes[current].parent # None
     THEN /\ s.current = nodes[current].parent
          /\ s.history = IF s.current = current THEN history
                          ELSE Append(history, s.current)
     ELSE s.current = current /\ s.history = history

\* C19: set_status(id, status, auto_up) sets the status of node id and of no
\* other; with auto_up and status done or dropped it also moves the cursor to
\* the parent of the current node (not of id); with auto_up false or status
\* active or todo it leaves the cursor and the history unchanged.
C19_SetStatus ==
  \A node_id \in DOMAIN nodes, status \in StatusInputs, auto_up \in BOOLEAN :
    StatusSet(set_status(Self, node_id, status, auto_up), node_id, status, auto_up)

\* The call s left current, history and next_id alone and ended normally.
OnlyNodes(s) ==
  /\ s.exc = ""
  /\ s.current = current
  /\ s.history = history
  /\ s.next_id = next_id

\* C20: for existing from_id and to_id, add_link twice leaves the state that
\* add_link once leaves, the first call appending to_id at the end of
\* from_id's links (unless it is there); remove_link removes the link when it
\* is there and changes nothing when it is not; add_link then remove_link of
\* a link that was not there restores the links list.
C20_LinkAddRemove ==
  \A from_id \in DOMAIN nodes, to_id \in Ids :
    LET links == nodes[from_id].links
        a == add_link(Self, from_id, to_id)
        r == remove_link(Self, from_id, to_id)
    IN  /\ to_id \in DOMAIN nodes =>
             /\ OnlyNodes(a)
             /\ a.nodes = IF In(to_id, links) THEN nodes
                          ELSE [nodes EXCEPT ![from_id].links = Append(@, to_id)]
             /\ OnlyNodes(add_link(a, from_id, to_id))
             /\ add_link(a, from_id, to_id).nodes = a.nodes
             /\ ~In(to_id, links) =>
                  /\ OnlyNodes(remove_link(a, from_id, to_id))
                  /\ remove_link(a, from_id, to_id).nodes = nodes
        /\ OnlyNodes(r)
        /\ IF In(to_id, links)
           THEN r.nodes = [nodes EXCEPT ![from_id].links = Without(links, <<to_id>>)]
           ELSE r.nodes = nodes

\* C21: after any sequence of public operations (update_node with a links
\* list, copy_subtree and delete_node among them) no node's `links` holds the
\* same target id more than once.
C21_NoDuplicateLinks ==
  \A k \in DOMAIN nodes :
    \A i \in 1..Len(nodes[k].links), j \in 1..Len(nodes[k].links) :
      nodes[k].links[i] = nodes[k].links[j] => i = j

\* C22: in every reachable state get_statistics returns counts with
\* active + done + dropped + todo = total = the number of nodes in the store,
\* and a leaf count equal to the number of nodes with empty children.
C22_StatisticsAddUp ==
  LET s == get_statistics(Self)
  IN  /\ s.exc = ""
      /\ s.ret.active + s.ret.done + s.ret.dropped + s.ret.todo = s.ret.total
      /\ s.ret.total = Cardinality(DOMAIN nodes)
      /\ s.ret.leaves = Cardinality({k \in DOMAIN nodes : Len(nodes[k].children) = 0})

\* The number of parent-pointer steps from n to root (root: 0), counted for at
\* most `fuel` steps.
RECURSIVE StepsToRoot(_, _, _)
StepsToRoot(ns, n, fuel) ==
  IF n = root \/ fuel = 0 \/ n \notin DOMAIN ns THEN 0
  ELSE 1 + StepsToRoot(ns, ns[n].parent, fuel - 1)

\* The largest number of a non-empty finite set of numbers.
Largest(S) == CHOOSE d \in S : \A e \in S : e <= d

\* C23: get_statistics' max depth is the maximum over all nodes of the number
\* of parent-pointer steps from the node to root (root being zero steps from
\* root), and so equals the largest depth iter_tree(root) yields.
C23_MaxDepthCountsSteps ==
  LET s == get_statistics(Self)
      it == iter_tree(Self, root)
  IN  /\ s.exc = ""
      /\ it.exc = ""
      /\ s.ret.max_depth =
           Largest({StepsToRoot(nodes, n, Cardinality(DOMAIN nodes)) : n \in DOMAIN nodes})
      /\ s.ret.max_depth = Largest({it.ret[i][2] : i \in 1..Len(it.ret)})

\* The position of node n in the sequence of (id, depth) pairs, 0 when absent.
Position(pairs, n) ==
  IF \E i \in 1..Len(pairs) : pairs[i][1] = n
  THEN CHOOSE i \in 1..Len(pairs) : pairs[i][1] = n
  ELSE 0

\* C24: in every reachable state iter_tree(root) yields a finite sequence in
\* which every node of the store appears exactly once, each node after its
\* parent and one deeper than it (root at depth 0), the children of each node
\* in their stored order.
C24_IterTreePreorder ==
  LET it == iter_tree(Self, root)
      pairs == it.ret
  IN  /\ it.exc = ""
      /\ Len(pairs) = Cardinality(DOMAIN nodes)
      /\ \A n \in DOMAIN nodes :
           Cardinality({i \in 1..Len(pairs) : pairs[i][1] = n}) = 1
      /\ pairs[1] = <<root, 0>>
      /\ \A n \in (DOMAIN nodes) \ {root} :
           LET i == Position(pairs, n)
               j == Position(pairs, nodes[n].parent)
           IN  0 < j /\ j < i /\ pairs[i][2] = pairs[j][2] + 1
      /\ \A p \in DOMAIN nodes :
           \A a \in 1..Len(nodes[p].children), b \in 1..Len(nodes[p].children) :
             a < b => Position(pairs, nodes[p].children[a]) < Position(pairs, nodes[p].children[b])

\* C25: for every reachable tree t, from_dict(t.to_dict()) has the name,
\* current, next_id, history and nodes (ids, titles, statuses, parents,
\* children order, bodies, links order) of t; root's record has no `parent`
\* key and every other record has it.
C25_DictRoundTrip ==
  LET data == to_dict(Self)
      tree == from_dict(data)
  IN  /\ tree.name = TreeName
      /\ tree.current = current
      /\ tree.next_id = next_id
      /\ tree.history = history
      /\ DOMAIN tree.nodes = DOMAIN nodes
      /\ \A k \in DOMAIN nodes :
           /\ tree.nodes[k].id = k
           /\ tree.nodes[k].title = nodes[k].title
           /\ tree.nodes[k].status = nodes[k].status
           /\ tree.nodes[k].parent = nodes[k].parent
           /\ tree.nodes[k].children = nodes[k].children
           /\ tree.nodes[k].body = nodes[k].body
           /\ tree.nodes[k].links = nodes[k].links
           /\ ("parent" \in DOMAIN data.nodes[k]) <=> (k # root)

\* The tree has a child of root that is done and the cursor is on a grandchild
\* of root.
C25_Witness ==
  /\ \E k \in DOMAIN nodes : nodes[k].parent = root /\ nodes[k].status = "done"
  /\ current \in DOMAIN nodes
  /\ nodes[current].parent \notin {None, root}
  /\ Len(history) >= 2
  /\ from_dict(to_dict(Self)).current = current

\* The failing calls on the current tree that name an id absent from the store
\* (the spec's NotFound) ...
NotFoundCalls ==
  LET Absent == Ids \ DOMAIN nodes
  IN  UNION {
        {add_child(Self, id, "t", TRUE), add_sibling(Self, id, "t", TRUE), go_to(Self, id),
         set_status(Self, id, "done", TRUE),
         update_node(Self, id, Arg("u"), NoArg, NoArg, NoArg),
         append_body(Self, id, "x"), add_link(Self, id, root), add_link(Self, root, id),
         remove_link(Self, id, root), move_node(Self, id, root), delete_node(Self, id),
         copy_subtree(Self, id, root), copy_subtree(Self, root, id)} : id \in Absent }
      \cup {move_node(Self, id, a) : id \in (DOMAIN nodes) \ {root}, a \in Absent}

\* ... and those that ask for what the tree forbids (the spec's
\* InvalidOperation): deleting root, moving root, a sibling for root, a move
\* under a proper descendant.
InvalidOperationCalls ==
  {delete_node(Self, root), add_sibling(Self, root, "t", TRUE)}
    \cup {move_node(Self, root, id) : id \in DOMAIN nodes}
    \cup UNION {{move_node(Self, id, d) : d \in Descendants(nodes, id) \ {id}} :
                  id \in (DOMAIN nodes) \ {root}}

\* C26: failures come in two kinds a caller can tell apart from the failure
\* signal alone: NotFound for an id absent from the store, InvalidOperation
\* for root deletion, root move, sibling-add on root and a cycle-creating
\* move.
C26_FailureKindsDiffer ==
  \A a \in NotFoundCalls, b \in InvalidOperationCalls :
    /\ a.exc # ""
    /\ b.exc # ""
    /\ a.exc # b.exc

\* C27: go_down(index) moves the cursor to children[index] of the current
\* node and returns true iff 0 <= index < the number of children; for any
\* other index, or a childless current node, it returns false and leaves
\* current and history unchanged; go_up returns false and changes nothing
\* exactly when current is root (otherwise it returns true with the cursor on
\* the parent).
C27_GoDownGoUp ==
  /\ \A index \in Indexes :
       LET s == go_down(Self, index)
       IN  /\ s.exc = ""
           /\ s.nodes = nodes
           /\ LET ch == nodes[current].children
              IN  IF 0 <= index /\ index < Len(ch)
                  THEN s.ret = "True" /\ s.current = ch[index + 1]
                  ELSE s.ret = "False" /\ s.current = current /\ s.history = history
  /\ LET s == go_up(Self)
     IN  /\ s.exc = ""
         /\ s.nodes = nodes
         /\ IF current = root
            THEN s.ret = "False" /\ s.current = current /\ s.history = history
            ELSE /\ s.ret = "True"
                 /\ s.current = nodes[current].parent
                 /\ s.current # current
                 /\ s.history = Append(history, s.current)

\* What C28 says of a step to the sibling `by` places on (1: next, -1:
\* previous) with outcome s.
SiblingStep(s, by) ==
  /\ s.exc = ""
  /\ s.nodes = nodes
  /\ IF current = root
     THEN s.ret = "False" /\ s.current = current /\ s.history = history
     ELSE LET ch == nodes[nodes[current].parent].children
              i == Index(ch, current)
          IN  IF 1 <= i + by /\ i + by <= Len(ch)
              THEN s.ret = "True" /\ s.current = ch[i + by]
              ELSE s.ret = "False" /\ s.current = current /\ s.history = history

\* C28: go_next_sibling / go_prev_sibling move the cursor to the entry right
\* after / before current in the parent's children and return true when there
\* is one; at root, at the last child (next) or the first child (prev) they
\* return false and change nothing; a successful go_next_sibling followed by
\* go_prev_sibling has the cursor back on the starting node.
C28_SiblingSteps ==
  /\ SiblingStep(go_next_sibling(Self), 1)
  /\ SiblingStep(go_prev_sibling(Self), -1)
  /\ LET s == go_next_sibling(Self)
     IN  s.ret = "True" =>
           LET b == go_prev_sibling(s)
           IN  b.exc = "" /\ b.ret = "True" /\ b.current = current

\* The entries of a list, as a set.
Entries(lst) == {lst[i] : i \in 1..Len(lst)}

\* C29: get_backlinks(id) returns exactly the nodes x with id in x.links, and
\* find_orphans exactly the nodes with empty children, empty links and empty
\* get_backlinks, so find_orphans is always a subset of find_leaves.
C29_BacklinksAndOrphans ==
  /\ \A id \in Ids :
       LET b == get_backlinks(Self, id)
       IN  /\ b.exc = ""
           /\ Entries(b.ret) = {x \in DOMAIN nodes : In(id, nodes[x].links)}
           /\ Len(b.ret) = Cardinality(Entries(b.ret))
  /\ LET o == find_orphans(Self)
         l == find_leaves(Self)
     IN  /\ o.exc = ""
         /\ l.exc = ""
         /\ Entries(o.ret) =
              {x \in DOMAIN nodes : /\ Len(nodes[x].children) = 0
                                    /\ Len(nodes[x].links) = 0
                                    /\ \A y \in DOMAIN nodes : ~In(x, nodes[y].links)}
         /\ Len(o.ret) = Cardinality(Entries(o.ret))
         /\ Entries(l.ret) = {x \in DOMAIN nodes : Len(nodes[x].children) = 0}
         /\ Entries(o.ret) \subseteq Entries(l.ret)

\* One leaf without links is linked to by another node (a leaf that is no
\* orphan), and another leaf is an orphan.
C29_Witness ==
  /\ \E x \in DOMAIN nodes, y \in DOMAIN nodes :
       /\ x # y
       /\ nodes[x].children = <<>>
       /\ nodes[x].links = <<>>
       /\ get_backlinks(Self, x).ret = <<y>>
       /\ x \notin Entries(find_orphans(Self).ret)
  /\ find_orphans(Self).ret # <<>>

\* The values update_node is called with for title, body and status: left
\* out, or given.
TitleArgs == {NoArg, Arg("u")}
BodyArgs == {NoArg, Arg(""), Arg("x")}
StatusArgs == {NoArg, Arg("done")}
LinksArgs == {NoArg} \cup {Arg(links) : links \in LinkInputs}

\* C30: update_node(id, ...) changes the fields of node id that were provided
\* (title, body, status, links) and nothing else: the node's other fields,
\* its parent and children, every other node, current, history and next_id
\* are unchanged.
C30_UpdateNodeFrame ==
  \A node_id \in DOMAIN nodes, title \in TitleArgs, body \in BodyArgs,
     status \in StatusArgs, links \in LinksArgs :
    LET s == update_node(Self, node_id, title, body, status, links)
        old == nodes[node_id]
    IN  /\ OnlyNodes(s)
        /\ DOMAIN s.nodes = DOMAIN nodes
        /\ \A k \in (DOMAIN nodes) \ {node_id} : s.nodes[k] = nodes[k]
        /\ s.nodes[node_id].parent = old.parent
        /\ s.nodes[node_id].children = old.children
        /\ s.nodes[node_id].title = IF title = NoArg THEN old.title ELSE title[1]
        /\ s.nodes[node_id].body = IF body = NoArg THEN old.body ELSE body[1]
        /\ s.nodes[node_id].status = IF status = NoArg THEN old.status ELSE status[1]
        /\ s.nodes[node_id].links = IF links = NoArg THEN old.links ELSE links[1]

\* A node between root and a child of its own is updated with a links list
\* only, the cursor being away from root.
C30_Witness ==
  \E node_id \in (DOMAIN nodes) \ {root} :
    /\ nodes[node_id].children # <<>>
    /\ nodes[node_id].parent = root
    /\ current # root
    /\ Succeeds(update_node(Self, node_id, NoArg, NoArg, NoArg, Arg(<<root>>)))
    /\ update_node(Self, node_id, NoArg, NoArg, NoArg, Arg(<<root>>)).nodes # nodes

\* The clone c in ns1 carries, node by node and child by child, the title,
\* status, body and links list the subtree of o has in ns0.
RECURSIVE SameFields(_, _, _, _, _)
SameFields(ns0, o, ns1, c, fuel) ==
  /\ fuel > 0
  /\ o \in DOMAIN ns0
  /\ c \in DOMAIN ns1
  /\ ns1[c].title = ns0[o].title
  /\ ns1[c].status = ns0[o].status
  /\ ns1[c].body = ns0[o].body
  /\ ns1[c].links = ns0[o].links
  /\ Len(ns1[c].children) = Len(ns0[o].children)
  /\ \A i \in 1..Len(ns0[o].children) :
       SameFields(ns0, ns0[o].children[i], ns1, ns1[c].children[i], fuel - 1)

Changed(s) == s.nodes # nodes \/ s.current # current \/ s.history # history

\* The calls the specification lists as doing nothing: go_to(current),
\* add_link of a link already present, remove_link of a link not present,
\* go_back with a single-entry history.
NoOpCalls ==
  {go_to(Self, current)}
    \cup UNION {{add_link(Self, f, nodes[f].links[i]) : i \in 1..Len(nodes[f].links)} :
                f \in DOMAIN nodes}
    \cup UNION {{remove_link(Self, f, to) : to \in {x \in Ids : ~In(x, nodes[f].links)}} :
                f \in DOMAIN nodes}
    \cup (IF Len(history) = 1 THEN {go_back(Self)} ELSE {})

\* C32: every call that changes nodes, current or history renews the
\* `updated` stamp; a call that fails changes none of the three, and neither
\* do go_to(current), add_link of an existing link, remove_link of an absent
\* link and go_back with a single-entry history.
C32_ChangesAreStamped ==
  /\ \A s \in Calls :
       Decided(s) => /\ Changed(s) => s.touched
                     /\ s.exc # "" => ~Changed(s)
  /\ \A s \in NoOpCalls : s.exc = "" /\ ~Changed(s)

\* Both sessions have left save_tree.
SavesOver == \A p \in Sessions : sess[p].pc \in {"done", "failed"}

\* C33: when the two sessions have run save_tree for the same name, in
\* whatever order their open-temp, write and rename steps took place, the tree
\* file holds the complete serialization of the tree of one of the two
\* sessions, not a mixture of both and not a truncated document, and both
\* saves have returned.
C33_LastWriterWins ==
  SavesOver =>
    /\ get_tree_path(TreeName) \in DOMAIN dir
    /\ \E p \in Sessions :
         inode[dir[get_tree_path(TreeName)]] = Document(to_dict(sess[p].tree))

\* C34: in every state reached by add_child, add_sibling, add_link,
\* remove_link, move_node, copy_subtree, delete_node, set_status and the
\* navigation operations alone (update_node never called), every id in a
\* node's `links` is a key of `nodes`.
C34_LinksNameNodes ==
  \A k \in DOMAIN nodes :
    \A i \in 1..Len(nodes[k].links) : nodes[k].links[i] \in DOMAIN nodes

\* A delete that removes a node some surviving node links to.
C34_Witness ==
  \E node_id \in (DOMAIN nodes) \ {root} :
    /\ \E k \in (DOMAIN nodes) \ RemovalSet(nodes, node_id) : In(node_id, nodes[k].links)
    /\ Succeeds(delete_node(Self, node_id))

\* C35: in every reachable state the children lists and the parent pointers
\* agree in both directions: every id in the children of a node p is a key of
\* `nodes` whose parent is p, every node with a parent is in that parent's
\* children, no id is in two children lists or twice in one, and root is in no
\* children list.
C35_ChildrenMatchParents ==
  /\ \A p \in DOMAIN nodes :
       \A i \in 1..Len(nodes[p].children) :
         LET c == nodes[p].children[i]
         IN  /\ c \in DOMAIN nodes
             /\ c # root
             /\ nodes[c].parent = p
             /\ Count(nodes[p].children, c) = 1
  /\ \A c \in DOMAIN nodes :
       nodes[c].parent # None =>
         /\ nodes[c].parent \in DOMAIN nodes
         /\ In(c, nodes[nodes[c].parent].children)

\* A node that has a child can be moved under another parent.
C35_Witness ==
  \E node_id \in DOMAIN nodes, new_parent_id \in DOMAIN nodes :
    /\ node_id # new_parent_id
    /\ nodes[node_id].parent # new_parent_id
    /\ nodes[node_id].children # <<>>
    /\ ~In(node_id, nodes[node_id].children)
    /\ Succeeds(move_node(Self, node_id, new_parent_id))

\* The deletes that return and filter the history: the cursor is on one of
\* the nodes they delete.
FilteringDeletes ==
  {node_id \in (DOMAIN nodes) \ {root} :
     /\ delete_node(Self, node_id).exc = ""
     /\ In(current, _collect_descendants(Self, node_id))}

\* C36: in every reachable state the first element of `history` is root, and
\* whenever delete_node filters the history the filtered list is not empty:
\* the branch that resets the history to [root] is not taken.
C36_HistoryStartsAtRoot ==
  /\ history # <<>>
  /\ history[1] = root
  /\ \A node_id \in FilteringDeletes :
       FilteredHistory(history, _collect_descendants(Self, node_id)) # <<>>

\* The cursor is on a node that a delete removes.
C36_Witness ==
  \E node_id \in FilteringDeletes : Succeeds(delete_node(Self, node_id))

\* C37: in every reachable state `history` holds no two equal adjacent
\* entries, and whenever go_back returns true the cursor is on another node
\* than before the call.
C37_NoRepeatedVisit ==
  /\ \A i \in 1..(Len(history) - 1) : history[i] # history[i + 1]
  /\ LET s == go_back(Self)
     IN  s.ret = "True" => s.current # current

\* C38: a move_node(id, new_parent_id) that returns leaves current, history,
\* next_id, the key set of `nodes`, every node's links, title, status and
\* body, the children list of id itself and the parent of every node other
\* than id as they were.
C38_MoveNodeFrame ==
  \A node_id \in Ids, new_parent_id \in Ids :
    LET s == move_node(Self, node_id, new_parent_id)
    IN  s.exc = "" =>
          /\ s.current = current
          /\ s.history = history
          /\ s.next_id = next_id
          /\ DOMAIN s.nodes = DOMAIN nodes
          /\ \A k \in DOMAIN nodes :
               /\ s.nodes[k].links = nodes[k].links
               /\ s.nodes[k].title = nodes[k].title
               /\ s.nodes[k].status = nodes[k].status
               /\ s.nodes[k].body = nodes[k].body
               /\ k # node_id => s.nodes[k].parent = nodes[k].parent
          /\ s.nodes[node_id].children = nodes[node_id].children

\* The content of the file at `path`, <<>> standing for no file.
FileAt(fs, path) == IF exists(fs, path) THEN <<fs.inode[fs.dir[path]]>> ELSE <<>>

\* The stored tree `name` and its backup are the same files in fs as now.
Untouched(fs, name) ==
  /\ FileAt(fs, get_tree_path(name)) = FileAt(FS, get_tree_path(name))
  /\ FileAt(fs, with_suffix(get_tree_path(name), ".json.bak"))
       = FileAt(FS, with_suffix(get_tree_path(name), ".json.bak"))

\* The tree stored in fs under new_name is the one stored now under old_name,
\* with its name field set to new_name.
StoredAs(fs, old_name, new_name) ==
  LET was == load_tree(FS, old_name)
      is == load_tree(fs, new_name)
  IN  /\ is.exc = ""
      /\ is.name = new_name
      /\ is.nodes = was.nodes
      /\ is.current = was.current
      /\ is.history = was.history

\* C39: rename_tree(old, new) and copy_tree(src, dst) fail without creating,
\* changing or deleting any file when the source is missing or the destination
\* exists; otherwise rename_tree leaves the tree stored under the new name
\* only, with its name field equal to the new name and the same nodes,
\* current and history, and copy_tree stores such a copy and leaves the source
\* untouched.  No other stored tree changes.
C39_RenameAndCopy ==
  \A a \in Names, b \in Names :
    LET r == rename_tree(FS, a, b)
        c == copy_tree(FS, a, b)
    IN  IF ~exists(FS, get_tree_path(a)) \/ exists(FS, get_tree_path(b))
        THEN /\ r.exc \in {"FileNotFoundError", "FileExistsError"}
             /\ r.dir = dir /\ r.inode = inode
             /\ c.exc \in {"FileNotFoundError", "FileExistsError"}
             /\ c.dir = dir /\ c.inode = inode
        ELSE /\ r.exc = ""
             /\ list_trees(r) = (list_trees(FS) \ {a}) \cup {b}
             /\ StoredAs(r, a, b)
             /\ \A n \in Names \ {a, b} : Untouched(r, n)
             /\ c.exc = ""
             /\ list_trees(c) = list_trees(FS) \cup {b}
             /\ StoredAs(c, a, b)
             /\ \A n \in Names \ {b} : Untouched(c, n)

\* A stored tree with edits and a backup can be renamed to a free name, and
\* renamed back after that.
C39_Witness ==
  \E a \in Names, b \in Names :
    /\ exists(FS, with_suffix(get_tree_path(a), ".json.bak"))
    /\ load_tree(FS, a).exc = ""
    /\ tree_to_dict(load_tree(FS, a)).nodes # to_dict(create).nodes
    /\ rename_tree(FS, a, b).exc = ""
    /\ copy_tree(FS, a, b).exc = ""
    /\ rename_tree(rename_tree(FS, a, b), b, a).exc = ""

====
